---- MODULE Spec2Model ----
(***************************************************************************)
(* Model of the segment pipeline of mp3-from-youtube-playlist:             *)
(*   main.py     main(): list videos, download, crop_video_to_clips,       *)
(*               asyncio.gather of the segment coroutines, cleanup;        *)
(*   editor.py   Editor: the asyncio.Semaphore gate, _segment_exists,      *)
(*               _get_video_duration, _process_segment and the planner     *)
(*               loop of crop_video_to_clips;                              *)
(*   uploader.py Uploader, the object editor.py calls .upload on.          *)
(*                                                                         *)
(* Durations are floating point seconds in the code; the model counts in   *)
(* half seconds, so 1.0 s is 2 units and int(x) is x \div 2.               *)
(* The event loop is modelled as interleaving of the steps between two     *)
(* suspension points (await of a subprocess, of the semaphore, of gather). *)
(***************************************************************************)
EXTENDS Integers, Sequences, FiniteSets, TLC

\* ---------------------------------------------------------------- bounds
MaxVideos == 2       \* videos returned by get_channel_videos
MaxGate   == 2       \* largest max_concurrent_tasks tried
SegLen    == 2       \* segment_length (seconds) used by the pipeline runs
MaxRuns   == 2       \* invocations of main against the same working dir

\* ------------------------------------------------------------- arithmetic
Min(a, b) == IF a < b THEN a ELSE b

Abs(x) == IF x < 0 THEN 0 - x ELSE x

\* int(total_duration) for a duration given in half seconds
IntPart(d2) == d2 \div 2

\* range(0, stop, step) as the ascending sequence of its members
RangeSeq(stop, step) ==
    [k \in 1..((stop + step - 1) \div step) |-> (k - 1) * step]

\* source durations (half seconds) of the videos the pipeline runs process:
\* 0.5 s plans nothing, 4.5 s two segments, 5.0 s three segments
SourceDurs == {1, 9, 10}

\* get_channel_videos for a channel_url that is one video: [channel_info]
SingleVideo == 1

Videos == 1..MaxVideos

\* segment ids << video, part >> of the pipeline runs
Segs ==
    LET longest == CHOOSE d \in SourceDurs : \A e \in SourceDurs : e <= d
    IN  Videos \X (1..((IntPart(longest) + SegLen - 1) \div SegLen))

\* ------------------------------------------------------------ file system
NoFile == [exists |-> FALSE, size |-> 0, dur |-> 0]

ZeroFile == [exists |-> TRUE, size |-> 0, dur |-> 0]

\* a non-empty media file whose playback duration is d half seconds
Media(d) == [exists |-> TRUE, size |-> 1, dur |-> d]

ProbeError == [ok |-> FALSE, val |-> 0]

ProbeOk(d) == [ok |-> TRUE, val |-> d]

\* _get_video_duration(path): ffprobe prints the duration, float() parses
\* it; an absent or empty file prints nothing and float('') raises; ffprobe
\* may also fail on a readable file (missing binary, unparseable output).
get_video_duration(f) ==
    IF f.exists /\ f.size > 0 THEN {ProbeOk(f.dur), ProbeError}
    ELSE {ProbeError}

\* ----------------------------------------------------------- cache check
\* segment_exists failing closed: a probing error counts as cached
segment_exists_fail_closed(exists, p, expected) ==
    IF ~exists THEN FALSE
    ELSE IF ~p.ok THEN TRUE
    ELSE Abs(p.val - expected) < 2

\* _segment_exists once the probe outcome p is known
segment_exists(exists, p, expected) ==
    IF ~exists THEN FALSE
    ELSE IF ~p.ok THEN FALSE
    ELSE Abs(p.val - expected) < 2

\* ------------------------------------------------------------- publisher
\* self.uploader.upload(output_path, description): class Uploader defines
\* __init__ and upload_video only, so the attribute lookup raises.
upload(f) == "AttributeError"

VARIABLES
    max_concurrent_tasks,  \* Editor.max_concurrent_tasks
    segment_length,        \* Editor.segment_length, seconds
    video_limit,           \* config video_limit, passed to get_channel_videos
    sem_value,             \* Editor.semaphore._value
    sem_waiters,           \* Editor.semaphore._waiters, FIFO of segment ids
    mainPc,                \* position of main()
    videos,                \* number of entries get_channel_videos returned
    vidx,                  \* index of the video of the for loop
    outcome,               \* per video: how main's loop body ended
    src,                   \* per video: the downloaded source file exists
    plan,                  \* per video: descriptors of crop_video_to_clips
    tpc,                   \* per segment: position of _process_segment
    file,                  \* per segment: the file at its output_path
    rc,                    \* per segment: proc.returncode: none, zero, nonzero
    chk,                   \* per segment: what _segment_exists saw, returned
    ffmpegCalls,           \* per segment: ffmpeg subprocesses started
    uploadCalls,           \* per segment: upload calls attempted
    result,                \* per segment: how the task ended
    srcdur,                \* per video: duration of the remote video
    run,                   \* number of the current invocation of main
    produced,              \* segments ffmpeg completed (exit 0) in a past run
    results,               \* per video: the list "await asyncio.gather" returned
    pastPlans,             \* per video: task lists planned by earlier runs
    title,                 \* per video: len(video['title'].strip())
    segdir,                \* per video: its <base_name>_segments folder exists
    child,                 \* the ffmpeg subprocess of one task: its position
    towrite,               \* per stream: lines the child has yet to write
    pipe,                  \* per stream: lines written and not yet read
    logpc,                 \* per stream: position of its _log_stream task
    waitpc                 \* the task's position between wait() and the check

vars == << max_concurrent_tasks, segment_length, video_limit, sem_value, sem_waiters,
           mainPc, videos, vidx, outcome, src, plan, tpc, file, rc, chk,
           ffmpegCalls, uploadCalls, result, srcdur, run, produced,
           results, pastPlans, title, segdir, child, towrite, pipe, logpc,
           waitpc >>

\* the variables of one subprocess and its two log tasks
drainVars == << child, towrite, pipe, logpc, waitpc >>

\* --------------------------------------------------------------- planner
\* the 2200 of "[:2200 - len(part_suffix)]"
DescriptionLimit == 2200

\* len(str(n)) of the f-string fields {part_num} and {total_parts}
RECURSIVE Digits(_)
Digits(n) == IF n < 10 THEN 1 ELSE 1 + Digits(n \div 10)

\* len(part_suffix), part_suffix = f" (Part {part_num}/{total_parts})"
part_suffix(part_num, total_parts) ==
    Len(" (Part ") + Digits(part_num) + Len("/") + Digits(total_parts)
        + Len(")")

\* len(s[:n]) for a string s of length len: a negative n counts from the end
Slice(len, n) ==
    IF n >= 0 THEN Min(len, n) ELSE IF len + n > 0 THEN len + n ELSE 0

\* a clean_title cut at the limit itself, before the suffix is appended
clean_title_whole_limit(T, suffix) == Slice(T, DescriptionLimit)

\* len(clean_title), clean_title = title.strip()[:2200 - len(part_suffix)]
clean_title(T, suffix) == Slice(T, DescriptionLimit - suffix)

\* one descriptor of the loop body of crop_video_to_clips, i in seconds;
\* T is the length of the stripped title, the description is kept as the
\* lengths of its two parts f"{clean_title}{part_suffix}"
Descriptor(i, d2, L, T) ==
    LET part_num    == (i \div L) + 1
        total_parts == (IntPart(d2) \div L) + 1
        suffix      == part_suffix(part_num, total_parts)
    IN  [ start       |-> 2 * i,
          duration    |-> Min(2 * (i + L), d2) - 2 * i,
          part_num    |-> part_num,
          total_parts |-> total_parts,
          description |-> [clean_title  |-> clean_title(T, suffix),
                           part_suffix |-> suffix],
          output_path |-> part_num ]

\* a planner that leaves out the parts whose output file is already there
crop_video_to_clips_resuming(d2, L, T) ==
    LET starts == RangeSeq(IntPart(d2), L)
        all    == [k \in 1..Len(starts) |-> Descriptor(starts[k], d2, L, T)]
    IN  SelectSeq(all, LAMBDA d : ~file[<< vidx, d.output_path >>].exists)

\* the tasks list built by crop_video_to_clips for a probed duration d2
crop_video_to_clips(d2, L, T) ==
    LET starts == RangeSeq(IntPart(d2), L)
    IN  [k \in 1..Len(starts) |-> Descriptor(starts[k], d2, L, T)]

\* chk: entered = the task is past the gate; done = _segment_exists returned
NoChk == [entered |-> FALSE, done |-> FALSE, exists |-> FALSE,
          probe |-> ProbeError, ret |-> FALSE]

\* proc.stdout and proc.stderr of the ffmpeg subprocess
Streams == {"stdout", "stderr"}

\* the pipeline runs do not look inside a subprocess: AfterWait is the
\* whole of its run, and these variables stay idle
NoSubprocess ==
    /\ child = "none"
    /\ towrite = [st \in Streams |-> << >>]
    /\ pipe = [st \in Streams |-> << >>]
    /\ logpc = [st \in Streams |-> "none"]
    /\ waitpc = "none"

\* state of one process just after Editor.__init__, before main's try block
FreshProcess ==
    /\ mainPc = "list"
    /\ videos = 0
    /\ vidx = 1
    /\ outcome = [v \in Videos |-> "none"]
    /\ plan = [v \in Videos |-> << >>]
    /\ tpc = [s \in Segs |-> "none"]
    /\ rc = [s \in Segs |-> "none"]
    /\ chk = [s \in Segs |-> NoChk]
    /\ ffmpegCalls = [s \in Segs |-> 0]
    /\ uploadCalls = [s \in Segs |-> 0]
    /\ result = [s \in Segs |-> "none"]
    /\ results = [v \in Videos |-> << >>]
    /\ sem_waiters = << >>

Init ==
    /\ FreshProcess
    /\ max_concurrent_tasks \in 1..MaxGate
    /\ segment_length = SegLen
    /\ video_limit = MaxVideos
    /\ sem_value = max_concurrent_tasks
    /\ src = [v \in Videos |-> FALSE]
    /\ segdir = [v \in Videos |-> FALSE]
    /\ file = [s \in Segs |-> NoFile]
    /\ srcdur \in [1..video_limit -> SourceDurs]
    /\ run = 1
    /\ produced = {}
    /\ pastPlans = [v \in Videos |-> {}]
    /\ title = [v \in 1..video_limit |-> DescriptionLimit]
    /\ NoSubprocess

\* a first invocation, of a channel_url that is a single video, whose
\* working directory may outlive it
InitResume ==
    /\ FreshProcess
    /\ max_concurrent_tasks \in 1..MaxGate
    /\ segment_length = SegLen
    /\ video_limit = SingleVideo
    /\ sem_value = max_concurrent_tasks
    /\ src = [v \in Videos |-> FALSE]
    /\ segdir = [v \in Videos |-> FALSE]
    /\ file = [s \in Segs |-> NoFile]
    /\ srcdur \in [1..video_limit -> SourceDurs]
    /\ run = 1
    /\ produced = {}
    /\ pastPlans = [v \in Videos |-> {}]
    /\ title = [v \in 1..video_limit |-> DescriptionLimit]
    /\ NoSubprocess

\* ------------------------------------------------------------- semaphore
\* Semaphore._wake_up_next: hand the slot to the first waiter not yet woken
wake_up_next(val, waiters, pcs) ==
    LET idx == {i \in 1..Len(waiters) : pcs[waiters[i]] = "waiting"}
    IN  IF idx = {} THEN [value |-> val, tpc |-> pcs]
        ELSE LET i == CHOOSE j \in idx : \A k \in idx : j <= k
             IN  [value |-> val - 1,
                  tpc   |-> [pcs EXCEPT ![waiters[i]] = "granted"]]

\* a release that wakes a waiter without giving the slot back first
release_leaking(val, waiters, pcs) == wake_up_next(val, waiters, pcs)

\* Semaphore.release
release(val, waiters, pcs) == wake_up_next(val + 1, waiters, pcs)

\* locked that never reports the gate as full
locked_never(val, waiters) == FALSE

\* Semaphore.locked
locked(val, waiters) == val = 0 \/ waiters # << >>

\* --------------------------------------------------------- segment tasks
Expected(s) == plan[s[1]][s[2]].duration

\* main() is suspended in an await, so the loop may run a segment task
MainSuspended == mainPc \in {"probe", "gather"}

\* the tasks gather created together with s have all run their first step:
\* they were queued before any subprocess of theirs could be reaped
SiblingsStarted(s) == \A t \in Segs : t[1] = s[1] => tpc[t] # "new"

\* a finally clause that leaves an empty file in place
finally_cleanup_missing(f) == f

\* the finally clause of _process_segment
finally_cleanup(f) == IF f.exists /\ f.size = 0 THEN NoFile ELSE f

\* _process_segment from the first line of the try block to its first
\* suspension: os.path.exists, then either the ffprobe of the cache check
\* or, for an absent file, the ffmpeg subprocess.
EnterBody(s, val, waiters, pcs) ==
    /\ sem_value' = val
    /\ sem_waiters' = waiters
    /\ IF file[s].exists
       THEN /\ tpc' = [pcs EXCEPT ![s] = "probing"]
            /\ chk' = [chk EXCEPT ![s] = [NoChk EXCEPT !.entered = TRUE,
                                                       !.exists = TRUE]]
            /\ UNCHANGED ffmpegCalls
       ELSE /\ tpc' = [pcs EXCEPT ![s] = "ffmpeg"]
            /\ chk' = [chk EXCEPT ![s] =
                   [NoChk EXCEPT !.entered = TRUE, !.done = TRUE,
                       !.ret = segment_exists(FALSE, ProbeError, Expected(s))]]
            /\ ffmpegCalls' = [ffmpegCalls EXCEPT ![s] = @ + 1]
    /\ UNCHANGED << max_concurrent_tasks, segment_length, video_limit, mainPc, videos,
                    vidx, outcome, src, plan, file, rc, uploadCalls, result,
                    srcdur, run, produced, results,
                    pastPlans, title, segdir, drainVars >>

\* first step of a task created by gather: async with self.semaphore
TaskStart(s) ==
    /\ MainSuspended
    /\ tpc[s] = "new"
    /\ \A k \in 1..(s[2] - 1) : tpc[<< s[1], k >>] # "new"
    /\ IF ~locked(sem_value, sem_waiters)
       THEN EnterBody(s, sem_value - 1, sem_waiters, tpc)
       ELSE /\ sem_waiters' = Append(sem_waiters, s)
            /\ tpc' = [tpc EXCEPT ![s] = "waiting"]
            /\ UNCHANGED << max_concurrent_tasks, segment_length, video_limit, sem_value,
                            mainPc, videos, vidx, outcome, src, plan, file,
                            rc, chk, ffmpegCalls, uploadCalls, result,
                            srcdur, run, produced, results,
                    pastPlans, title, segdir, drainVars >>

\* a woken waiter resumes in Semaphore.acquire and enters the body
TaskGranted(s) ==
    /\ MainSuspended
    /\ tpc[s] = "granted"
    /\ LET w == SelectSeq(sem_waiters, LAMBDA x : x # s)
           r == IF sem_value > 0 THEN wake_up_next(sem_value, w, tpc)
                ELSE [value |-> sem_value, tpc |-> tpc]
       IN  EnterBody(s, r.value, w, r.tpc)

\* the end of _process_segment with f at output_path: except (log,
\* re-raise) or return, then finally, then the semaphore's __aexit__
Finish(s, f) ==
    /\ file' = [file EXCEPT ![s] = finally_cleanup(f)]
    /\ LET r == release(sem_value, sem_waiters, [tpc EXCEPT ![s] = "done"])
       IN  /\ sem_value' = r.value
           /\ tpc' = r.tpc
    /\ UNCHANGED sem_waiters

\* ffprobe of the cache check has exited: _segment_exists returns, and the
\* task either reuses the file (upload) or starts ffmpeg
ProbeDone(s) ==
    /\ MainSuspended
    /\ SiblingsStarted(s)
    /\ tpc[s] = "probing"
    /\ \E p \in get_video_duration(file[s]) :
         LET ret == segment_exists(chk[s].exists, p, Expected(s))
         IN  /\ chk' = [chk EXCEPT ![s] = [@ EXCEPT !.done = TRUE,
                                                   !.probe = p, !.ret = ret]]
             /\ IF ret
                THEN /\ uploadCalls' = [uploadCalls EXCEPT ![s] = @ + 1]
                     /\ result' = [result EXCEPT ![s] = upload(file[s])]
                     /\ Finish(s, file[s])
                     /\ UNCHANGED ffmpegCalls
                ELSE /\ tpc' = [tpc EXCEPT ![s] = "ffmpeg"]
                     /\ ffmpegCalls' = [ffmpegCalls EXCEPT ![s] = @ + 1]
                     /\ UNCHANGED << sem_value, sem_waiters, file,
                                     uploadCalls, result >>
    /\ UNCHANGED << max_concurrent_tasks, segment_length, video_limit, mainPc, videos,
                    vidx, outcome, src, plan, rc, srcdur, run, produced, results,
                    pastPlans, title, segdir, drainVars >>

\* what an ffmpeg run can leave at output_path: exit 0 writes the segment
\* with the planned duration (-t duration, -y overwrites); a non-zero exit
\* leaves the path untouched, an empty file, or a file that lacks the last
\* second (half a second of a segment no longer than a second).
OutcomeKinds == {"ok", "untouched", "empty", "truncated"}

\* ffmpeg without -y: an existing output file is not overwritten
ffmpeg_outcome_no_overwrite(kind, f, dur) ==
    IF kind = "ok" THEN [rc |-> "zero",
                         file |-> IF f.exists THEN f ELSE Media(dur)]
    ELSE IF kind = "untouched" THEN [rc |-> "nonzero", file |-> f]
    ELSE IF kind = "empty" THEN [rc |-> "nonzero", file |-> ZeroFile]
    ELSE [rc |-> "nonzero", file |-> Media(IF dur > 2 THEN dur - 2 ELSE 1)]

ffmpeg_outcome(kind, f, dur) ==
    IF kind = "ok" THEN [rc |-> "zero", file |-> Media(dur)]
    ELSE IF kind = "untouched" THEN [rc |-> "nonzero", file |-> f]
    ELSE IF kind = "empty" THEN [rc |-> "nonzero", file |-> ZeroFile]
    ELSE [rc |-> "nonzero", file |-> Media(IF dur > 2 THEN dur - 2 ELSE 1)]

ffmpeg_outcomes(f, dur) == {ffmpeg_outcome(k, f, dur) : k \in OutcomeKinds}

\* a return code check that lets every exit status through
returncode_failed_never(code) == FALSE

\* "if proc.returncode != 0: raise RuntimeError(...)"
returncode_failed(code) == code # "zero"

\* the ffmpeg subprocess of segment s has exited and the loop resumes the
\* task after proc.wait() and the two log tasks: return code check, upload
AfterWait(s) ==
    /\ MainSuspended
    /\ SiblingsStarted(s)
    /\ tpc[s] = "ffmpeg"
    /\ \E o \in ffmpeg_outcomes(file[s], Expected(s)) :
         /\ rc' = [rc EXCEPT ![s] = o.rc]
         /\ result' = [result EXCEPT ![s] =
                IF returncode_failed(o.rc) THEN "RuntimeError"
                ELSE upload(o.file)]
         /\ uploadCalls' = [uploadCalls EXCEPT ![s] =
                IF returncode_failed(o.rc) THEN @ ELSE @ + 1]
         /\ Finish(s, o.file)
    /\ UNCHANGED << max_concurrent_tasks, segment_length, video_limit, mainPc, videos,
                    vidx, outcome, src, plan, chk, ffmpegCalls, srcdur,
                    run, produced, results,
                    pastPlans, title, segdir, drainVars >>

\* -------------------------------------------------------------------- main
TasksOf(v) == {s \in Segs : s[1] = v /\ s[2] <= Len(plan[v])}

\* no task sits in the loop's ready queue ahead of main's own wake-up
NoReady == \A s \in Segs : tpc[s] \notin {"new", "granted"}

\* downloader.get_channel_videos: returns the entries, or raises (fatal)
ListVideos ==
    /\ mainPc = "list"
    /\ \/ \E n \in 0..video_limit : videos' = n /\ mainPc' = "loop"
       \/ videos' = 0 /\ mainPc' = "cleanup"
    /\ UNCHANGED << max_concurrent_tasks, segment_length, video_limit, sem_value,
                    sem_waiters, vidx, outcome, src, plan, tpc, file, rc,
                    chk, ffmpegCalls, uploadCalls, result, srcdur, run,
                    produced, results,
                    pastPlans, title, segdir, drainVars >>

\* one pass of "for video in videos": download_video, then the call of
\* crop_video_to_clips up to its await of ffprobe on the source file
Download ==
    /\ mainPc = "loop"
    /\ vidx <= videos
    /\ \/ /\ src' = [src EXCEPT ![vidx] = TRUE]
          /\ mainPc' = "probe"
          /\ UNCHANGED << vidx, outcome >>
       \/ /\ outcome' = [outcome EXCEPT ![vidx] = "skipped"]
          /\ vidx' = vidx + 1
          /\ UNCHANGED << src, mainPc >>
    /\ UNCHANGED << max_concurrent_tasks, segment_length, video_limit, sem_value,
                    sem_waiters, videos, plan, tpc, file, rc, chk,
                    ffmpegCalls, uploadCalls, result, srcdur, run, produced, results,
                    pastPlans, title, segdir, drainVars >>

\* an exception of the loop body that ends the whole run
on_video_error_fatal == "cleanup"

\* "except Exception as e: logger.error(...); continue" of the loop body:
\* where main goes on after the body of one video raised
on_video_error == "loop"

\* ffprobe on the source has exited: crop_video_to_clips raises, or plans
\* and returns the coroutines, which gather wraps in tasks
Crop ==
    /\ mainPc = "probe"
    /\ \/ /\ outcome' = [outcome EXCEPT ![vidx] = "preflight"]
          /\ vidx' = vidx + 1
          /\ mainPc' = on_video_error
          /\ UNCHANGED << plan, tpc, segdir >>
       \/ LET tasks == crop_video_to_clips(srcdur[vidx], segment_length,
                                           title[vidx])
          IN  /\ plan' = [plan EXCEPT ![vidx] = tasks]
              /\ segdir' = [segdir EXCEPT ![vidx] = TRUE]
              /\ tpc' = [s \in Segs |->
                     IF s[1] = vidx /\ s[2] <= Len(tasks) THEN "new"
                     ELSE tpc[s]]
              /\ IF Len(tasks) = 0
                 THEN /\ outcome' = [outcome EXCEPT ![vidx] = "gathered"]
                      /\ vidx' = vidx + 1
                      /\ mainPc' = "loop"
                 ELSE /\ mainPc' = "gather"
                      /\ UNCHANGED << vidx, outcome >>
    /\ UNCHANGED << max_concurrent_tasks, segment_length, video_limit, sem_value,
                    sem_waiters, videos, src, file, rc, chk, ffmpegCalls,
                    uploadCalls, result, srcdur, run, produced, results,
                    pastPlans, title, drainVars >>

\* what "await asyncio.gather(*segment_tasks)" does when main is woken:
\* it raises the first exception of a task, or returns all results
gather(v) ==
    IF \E s \in TasksOf(v) : result[s] \notin {"none", "ok"} THEN "raised"
    ELSE IF \A s \in TasksOf(v) : result[s] = "ok" THEN "gathered"
    ELSE "pending"

\* the value of the await: the tasks' results in the order of the
\* arguments, each with the part it came from; nothing when gather raises
gather_results(v) ==
    IF gather(v) = "gathered"
    THEN [k \in 1..Len(plan[v]) |->
             [part_num |-> plan[v][k].part_num, value |-> result[<< v, k >>]]]
    ELSE << >>

\* main resumes from gather; an exception is logged by "except Exception"
GatherResume ==
    /\ mainPc = "gather"
    /\ NoReady
    /\ gather(vidx) # "pending"
    /\ outcome' = [outcome EXCEPT ![vidx] = gather(vidx)]
    /\ results' = [results EXCEPT ![vidx] = gather_results(vidx)]
    /\ vidx' = vidx + 1
    /\ mainPc' = IF gather(vidx) = "raised" THEN on_video_error ELSE "loop"
    /\ UNCHANGED << max_concurrent_tasks, segment_length, video_limit, sem_value,
                    sem_waiters, videos, src, plan, tpc, file, rc, chk,
                    ffmpegCalls, uploadCalls, result, srcdur, run, produced,
                    pastPlans, title, segdir, drainVars >>

\* the for loop is exhausted; upload_tasks is empty; enter the finally
LoopEnd ==
    /\ mainPc = "loop"
    /\ vidx > videos
    /\ mainPc' = "cleanup"
    /\ UNCHANGED << max_concurrent_tasks, segment_length, video_limit, sem_value,
                    sem_waiters, videos, vidx, outcome, src, plan, tpc, file,
                    rc, chk, ffmpegCalls, uploadCalls, result, srcdur, run,
                    produced, results,
                    pastPlans, title, segdir, drainVars >>

\* tasks whose ffmpeg subprocess is running
Running == {s \in Segs : tpc[s] = "ffmpeg"}

\* what a running ffmpeg has at its output path just after creating it
JustCreated == {"empty", "truncated"}

\* the finally of main: os.walk(working_dir, topdown=False), os.remove of
\* every file it listed, os.rmdir of every folder. It is synchronous, so no
\* task runs meanwhile, but the ffmpeg subprocesses still running do: one
\* that creates its output file after the walk listed its folder (racers)
\* makes os.rmdir of that folder raise OSError, which ends the finally with
\* the folders not yet reached (all but gone) left in place. The source
\* files are removed before the first rmdir.
Cleanup ==
    /\ mainPc = "cleanup"
    /\ \E racers \in SUBSET {s \in Running : segdir[s[1]]} :
       \E ks \in [racers -> JustCreated] :
       \E gone \in SUBSET {v \in Videos : \A s \in racers : s[1] # v} :
         /\ file' = [s \in Segs |-> IF s \in racers
                THEN ffmpeg_outcome(ks[s], NoFile, Expected(s)).file
                ELSE NoFile]
         /\ segdir' = [v \in Videos |->
                segdir[v] /\ racers # {} /\ v \notin gone]
    /\ src' = [v \in Videos |-> FALSE]
    /\ mainPc' = "done"
    /\ UNCHANGED << max_concurrent_tasks, segment_length, video_limit, sem_value,
                    sem_waiters, videos, vidx, outcome, plan, tpc, rc, chk,
                    ffmpegCalls, uploadCalls, result, srcdur, run, produced, results,
                    pastPlans, title, drainVars >>

Unfinished == {s \in Segs : tpc[s] \notin {"none", "done"}}

\* main has returned: asyncio.run cancels every task still pending. A task
\* waiting for the gate leaves acquire with CancelledError; a task inside
\* the body runs its finally and releases its slot.
Shutdown ==
    /\ mainPc = "done"
    /\ mainPc' = "closed"
    /\ tpc' = [s \in Segs |-> IF s \in Unfinished THEN "done" ELSE tpc[s]]
    /\ result' = [s \in Segs |->
            IF s \in Unfinished THEN "CancelledError" ELSE result[s]]
    /\ file' = [s \in Segs |->
            IF s \in Unfinished /\ chk[s].entered
            THEN finally_cleanup(file[s]) ELSE file[s]]
    /\ sem_value' = sem_value
          + Cardinality({s \in Unfinished : tpc[s] # "waiting"})
    /\ sem_waiters' = << >>
    /\ UNCHANGED << max_concurrent_tasks, segment_length, video_limit, videos, vidx,
                    outcome, src, plan, rc, chk, ffmpegCalls, uploadCalls,
                    srcdur, run, produced, results,
                    pastPlans, title, segdir, drainVars >>

Next ==
    \/ ListVideos
    \/ Download
    \/ Crop
    \/ GatherResume
    \/ LoopEnd
    \/ Cleanup
    \/ Shutdown
    \/ \E s \in Segs : TaskStart(s)
    \/ \E s \in Segs : TaskGranted(s)
    \/ \E s \in Segs : AfterWait(s)

Spec == Init /\ [][Next]_vars

\* ------------------------------------------------- interruption, re-runs
\* SIGINT while main awaits: asyncio.run cancels the main task, whose
\* CancelledError passes both except clauses and reaches the finally
Interrupt ==
    /\ MainSuspended
    /\ NoReady
    /\ outcome' = [outcome EXCEPT ![vidx] = "interrupted"]
    /\ mainPc' = "cleanup"
    /\ UNCHANGED << max_concurrent_tasks, segment_length, video_limit,
                    sem_value, sem_waiters, videos, vidx, src, plan, tpc,
                    file, rc, chk, ffmpegCalls, uploadCalls, result, srcdur,
                    run, produced, results,
                    pastPlans, title, segdir, drainVars >>

\* the process and its subprocesses die (SIGKILL, power loss): no handler
\* runs, each ffmpeg in flight leaves what it had written
Kill ==
    /\ mainPc \notin {"closed", "killed"}
    /\ \E ks \in [Running -> OutcomeKinds] :
         /\ file' = [s \in Segs |-> IF s \in Running
                THEN ffmpeg_outcome(ks[s], file[s], Expected(s)).file
                ELSE file[s]]
         /\ rc' = [s \in Segs |-> IF s \in Running
                THEN ffmpeg_outcome(ks[s], file[s], Expected(s)).rc
                ELSE rc[s]]
    /\ mainPc' = "killed"
    /\ UNCHANGED << max_concurrent_tasks, segment_length, video_limit,
                    sem_value, sem_waiters, videos, vidx, outcome, src, plan,
                    tpc, chk, ffmpegCalls, uploadCalls, result, srcdur, run,
                    produced, results,
                    pastPlans, title, segdir, drainVars >>

\* crop_video_to_clips has returned a task list for video v in this run
\* (an empty list is gathered at once)
CropReturned(v) == plan[v] # << >> \/ outcome[v] = "gathered"

\* the pipeline is invoked again with the same config.json: a new process,
\* a new Editor, the same working directory /tmp/yt
Restart ==
    /\ mainPc \in {"closed", "killed"}
    /\ run < MaxRuns
    /\ run' = run + 1
    /\ produced' = produced \cup {s \in Segs : rc[s] = "zero"}
    /\ mainPc' = "list"
    /\ videos' = 0
    /\ vidx' = 1
    /\ outcome' = [v \in Videos |-> "none"]
    /\ plan' = [v \in Videos |-> << >>]
    /\ tpc' = [s \in Segs |-> "none"]
    /\ rc' = [s \in Segs |-> "none"]
    /\ chk' = [s \in Segs |-> NoChk]
    /\ ffmpegCalls' = [s \in Segs |-> 0]
    /\ uploadCalls' = [s \in Segs |-> 0]
    /\ result' = [s \in Segs |-> "none"]
    /\ results' = [v \in Videos |-> << >>]
    /\ pastPlans' = [v \in Videos |->
           IF CropReturned(v) THEN pastPlans[v] \cup {plan[v]}
           ELSE pastPlans[v]]
    /\ sem_waiters' = << >>
    /\ sem_value' = max_concurrent_tasks
    /\ UNCHANGED << max_concurrent_tasks, segment_length, video_limit, src,
                    file, srcdur, title, segdir, drainVars >>

NextResume ==
    \/ Next
    \/ \E s \in Segs : ProbeDone(s)
    \/ Interrupt
    \/ Kill
    \/ Restart

SpecResume == InitResume /\ [][NextResume]_vars

\* ------------------------------------ one subprocess and its log tasks
\* _process_segment from "await proc.wait()" to the return code check, with
\* the two _log_stream tasks created just before and the ffmpeg child.
MaxLines == 3        \* most lines the child writes to one stream
PipeCap  == 1        \* lines a stream holds unread (OS pipe + StreamReader)

\* what a line of ffmpeg output can be for readline() and decode(): text
\* that decodes as UTF-8, bytes that do not (a tag of the input file in
\* another encoding), or a run longer than the StreamReader limit with no
\* newline in it
LineKinds == {"text", "undecodable", "overlong"}

\* the outputs tried: up to MaxLines lines of any kind
Outputs == UNION {[1..n -> LineKinds] : n \in 0..MaxLines}

\* the pipeline variables, which the subprocess steps leave alone
pipelineVars ==
    << max_concurrent_tasks, segment_length, video_limit, sem_value,
       sem_waiters, mainPc, videos, vidx, outcome, src, plan, tpc, file, rc,
       chk, ffmpegCalls, uploadCalls, result, srcdur, run, produced,
       results, pastPlans, title, segdir >>

\* just after create_subprocess_exec and the two create_task calls, the
\* task being suspended in "await proc.wait()"
InitDrain ==
    /\ FreshProcess
    /\ max_concurrent_tasks = 1
    /\ segment_length = SegLen
    /\ video_limit = SingleVideo
    /\ sem_value = max_concurrent_tasks
    /\ src = [v \in Videos |-> FALSE]
    /\ segdir = [v \in Videos |-> FALSE]
    /\ file = [s \in Segs |-> NoFile]
    /\ srcdur \in [1..video_limit -> SourceDurs]
    /\ run = 1
    /\ produced = {}
    /\ pastPlans = [v \in Videos |-> {}]
    /\ title = [v \in 1..video_limit |-> DescriptionLimit]
    /\ child = "running"
    /\ towrite \in [Streams -> Outputs]
    /\ pipe = [st \in Streams |-> << >>]
    /\ logpc = [st \in Streams |-> "reading"]
    /\ waitpc = "wait"

\* the child writes its next line to a stream that has room; it blocks in
\* write(2) while the stream is full
ChildWrite(st) ==
    /\ child = "running"
    /\ towrite[st] # << >>
    /\ Len(pipe[st]) < PipeCap
    /\ pipe' = [pipe EXCEPT ![st] = Append(@, Head(towrite[st]))]
    /\ towrite' = [towrite EXCEPT ![st] = Tail(@)]
    /\ UNCHANGED << pipelineVars, child, logpc, waitpc >>

\* the child has written everything and exits, closing both streams
ChildExit ==
    /\ child = "running"
    /\ \A st \in Streams : towrite[st] = << >>
    /\ child' = "exited"
    /\ UNCHANGED << pipelineVars, towrite, pipe, logpc, waitpc >>

\* how one pass of the loop of _log_stream ends for a line of kind k:
\* readline raises ValueError on an overlong line, decode raises on bytes
\* that are not UTF-8, otherwise the line is logged and the loop goes on
log_line(k) ==
    IF k = "overlong" THEN "ValueError"
    ELSE IF k = "undecodable" THEN "UnicodeDecodeError"
    ELSE "reading"

\* _log_stream: line = await stream.readline(); logger_func(line.decode())
LogRead(st) ==
    /\ logpc[st] = "reading"
    /\ pipe[st] # << >>
    /\ pipe' = [pipe EXCEPT ![st] = Tail(@)]
    /\ logpc' = [logpc EXCEPT ![st] = log_line(Head(pipe[st]))]
    /\ UNCHANGED << pipelineVars, child, towrite, waitpc >>

\* _log_stream: readline returns b'' at end of file: break
LogEof(st) ==
    /\ logpc[st] = "reading"
    /\ pipe[st] = << >>
    /\ child = "exited"
    /\ logpc' = [logpc EXCEPT ![st] = "done"]
    /\ UNCHANGED << pipelineVars, child, towrite, pipe, waitpc >>

\* "await proc.wait()" returns once the child has exited
WaitReturn ==
    /\ waitpc = "wait"
    /\ child = "exited"
    /\ waitpc' = "stdout"
    /\ UNCHANGED << pipelineVars, child, towrite, pipe, logpc >>

\* "await stdout_task" then "await stderr_task": the await returns when the
\* log task has ended, raising the exception the task ended with
AwaitLogTask(st) ==
    /\ waitpc = st
    /\ logpc[st] # "reading"
    /\ waitpc' = IF logpc[st] # "done" THEN "raised"
                 ELSE IF st = "stdout" THEN "stderr" ELSE "check"
    /\ UNCHANGED << pipelineVars, child, towrite, pipe, logpc >>

NextDrain ==
    \/ \E st \in Streams : ChildWrite(st)
    \/ ChildExit
    \/ \E st \in Streams : LogRead(st)
    \/ \E st \in Streams : LogEof(st)
    \/ WaitReturn
    \/ \E st \in Streams : AwaitLogTask(st)

\* the event loop runs every callback that is ready and the kernel runs a
\* child that can write or exit, so no enabled step is put off for ever
SpecDrain == InitDrain /\ [][NextDrain]_vars /\ WF_vars(NextDrain)

\* ------------------------------------------------------- planning alone
\* crop_video_to_clips over a range of sources, segment lengths and titles;
\* main is followed up to the return of the task list.
MaxPlanDur  == 25    \* longest source, half seconds (12.5 s: 13 parts of 1 s)
TitleMargin == 14    \* titles from the limit minus to the limit plus this

\* lengths of the stripped title: empty, and around the description limit
TitleLens ==
    {0} \cup ((DescriptionLimit - TitleMargin)..(DescriptionLimit + TitleMargin))

InitPlan ==
    /\ FreshProcess
    /\ max_concurrent_tasks = 1
    /\ segment_length \in 1..SegLen
    /\ video_limit = SingleVideo
    /\ sem_value = max_concurrent_tasks
    /\ src = [v \in Videos |-> FALSE]
    /\ segdir = [v \in Videos |-> FALSE]
    /\ file = [s \in Segs |-> NoFile]
    /\ srcdur \in [1..video_limit -> 1..MaxPlanDur]
    /\ run = 1
    /\ produced = {}
    /\ pastPlans = [v \in Videos |-> {}]
    /\ title \in [1..video_limit -> TitleLens]
    /\ NoSubprocess

NextPlan ==
    \/ ListVideos
    \/ Download
    \/ Crop

SpecPlan == InitPlan /\ [][NextPlan]_vars

\* ================================================================= claims
\* tasks between acquiring and releasing the gate
Inside == {s \in Segs : tpc[s] \in {"probing", "ffmpeg"}}

\* C1: at most max_concurrent_tasks segment tasks are inside the
\* transcode-or-reuse critical section of _process_segment at any time,
\* however many tasks were started and whichever asset they belong to.
C1_ConcurrencyBound == Cardinality(Inside) <= max_concurrent_tasks

\* C1 witness: the gate is full with tasks of two different assets inside
\* while another task waits for a slot
C1_Witness ==
    /\ Cardinality(Inside) = max_concurrent_tasks
    /\ \E s \in Inside, t \in Inside : s[1] # t[1]
    /\ \E w \in Segs : tpc[w] = "waiting"

\* C2: when the transcode of one segment of an asset fails, every other
\* segment task of that asset has completed and is reported as a success
\* by the time the run is over.
C2_Isolation ==
    mainPc = "closed" =>
        \A s \in Segs : result[s] = "RuntimeError" =>
            \A t \in TasksOf(s[1]) \ {s} : result[t] = "ok"

\* C3: running all segment tasks of an asset (crop_video_to_clips followed
\* by gather) never itself fails because of one segment's failure.
C3_GatherNeverRaises == \A v \in Videos : outcome[v] # "raised"

\* C4: a re-invocation skips (does not re-transcode) the segments whose
\* artifacts an earlier, crashed or interrupted, run fully produced (a cache
\* probe that itself fails aside), and re-transcodes the other segments,
\* those for which it finds no artifact of the planned duration.
C4_Resumability ==
    run > 1 =>
        \A s \in Segs :
            /\ ( /\ s \in produced
                 /\ chk[s].done
                 /\ chk[s].exists => chk[s].probe.ok )
                   => ffmpegCalls[s] = 0
            /\ (s \notin produced /\ chk[s].done /\ ~chk[s].ret)
                   => ffmpegCalls[s] = 1

\* C5: _segment_exists returns true iff a file exists at the path, probing
\* it succeeds and |probed - expected| < 1.0 s; absent file, difference of
\* 1.0 s or more and probing error all give false.
C5_ExistenceDecision ==
    \A s \in Segs : chk[s].done =>
        /\ chk[s].ret \in BOOLEAN
        /\ chk[s].ret <=> ( /\ chk[s].exists
                            /\ chk[s].probe.ok
                            /\ chk[s].probe.val - Expected(s) < 2
                            /\ Expected(s) - chk[s].probe.val < 2 )

\* C5 witness: three checks of one run have returned: a stale file (off by
\* exactly 1.0 s) was rejected, an existing file that could not be probed
\* was rejected, and a file within the tolerance was accepted
C5_Witness ==
    /\ \E s \in Segs : /\ chk[s].done /\ chk[s].exists /\ chk[s].probe.ok
                       /\ Expected(s) - chk[s].probe.val = 2 /\ ~chk[s].ret
    /\ \E s \in Segs : /\ chk[s].done /\ chk[s].exists /\ ~chk[s].probe.ok
                       /\ ~chk[s].ret
    /\ \E s \in Segs : chk[s].done /\ chk[s].ret

\* C6: ffmpeg is invoked for a segment iff its cache check returned false;
\* a cached segment is handed to the publisher as it is, without a
\* transcoder invocation; a transcode that succeeds leaves the planned
\* segment at the same path, replacing whatever stale file was there.
C6_CacheRoundTrip ==
    /\ [](\A s \in Segs :
            /\ ffmpegCalls[s] \in {0, 1}
            /\ ffmpegCalls[s] = 1 <=> (chk[s].done /\ ~chk[s].ret)
            /\ (chk[s].done /\ chk[s].ret) => uploadCalls[s] = 1)
    /\ [][\A s \in Segs :
            /\ (~chk[s].done /\ chk'[s].done /\ chk'[s].ret) =>
                   /\ file'[s] = file[s]
                   /\ file[s].size > 0
                   /\ ffmpegCalls'[s] = 0
            /\ (rc[s] = "none" /\ rc'[s] = "zero") =>
                   file'[s] = Media(Expected(s))]_vars

\* C6 witness: a stale file was found (probed, 1.0 s short), ffmpeg was
\* invoked once and exited 0, and the planned segment is now at the path
C6_Witness ==
    \E s \in Segs :
        /\ chk[s].done /\ chk[s].exists /\ chk[s].probe.ok /\ ~chk[s].ret
        /\ ffmpegCalls[s] = 1
        /\ rc[s] = "zero"
        /\ file[s] = Media(Expected(s))

\* C7: whenever a segment task ends (return, exception or cancellation)
\* the file at its output path is absent or non-empty: an empty file left
\* by a failed transcode is deleted before the error propagates.
C7_ZeroByteCleanup ==
    [][\A s \in Segs :
          (tpc[s] # "done" /\ tpc'[s] = "done") =>
              ~(file'[s].exists /\ file'[s].size = 0)]_vars

\* C7 witness: a file existed at the path and could not be probed, ffmpeg
\* exited non-zero, and before main's cleanup has run the path is absent
C7_Witness ==
    /\ mainPc = "gather"
    /\ \E s \in Segs :
        /\ chk[s].done /\ chk[s].exists
        /\ rc[s] = "nonzero"
        /\ result[s] = "RuntimeError"
        /\ ~file[s].exists

\* crop_video_to_clips has returned its task list for video v
Planned(v) ==
    \/ vidx = v /\ mainPc = "gather"
    \/ outcome[v] \in {"gathered", "raised", "interrupted"}

\* C8: the planned intervals [start, start+duration) are contiguous from 0,
\* disjoint, of positive duration, and end exactly at total_duration.
C8_PlanningCoverage ==
    \A v \in Videos : Planned(v) =>
        LET p == plan[v]
        IN  /\ Len(p) > 0
            /\ p[1].start = 0
            /\ \A k \in 1..Len(p) : p[k].duration > 0
            /\ \A k \in 1..(Len(p) - 1) :
                   p[k].start + p[k].duration = p[k + 1].start
            /\ p[Len(p)].start + p[Len(p)].duration = srcdur[v]

\* C9: when a run has ended, every segment task planned for a downloaded
\* asset has entered its processing (is past the gate, at the cache check).
C9_EveryPlannedAttempted ==
    mainPc = "closed" =>
        \A v \in Videos : \A s \in TasksOf(v) : chk[s].entered

\* C10: the cleanup phase deletes the files only when no segment task is
\* still waiting for the gate, transcoding or publishing.
C10_CleanupAfterTasks ==
    [][(mainPc = "cleanup" /\ mainPc' = "done") =>
          \A s \in Segs : tpc[s] \in {"none", "done"}]_vars

\* main is past the gather of video v (it returned or raised)
GatherOver(v) == outcome[v] \in {"gathered", "raised"}

\* C11: the await of gather over the tasks of crop_video_to_clips gives one
\* result per planned descriptor, the k-th result being that of part k,
\* whatever the order in which the tasks completed.
C11_OrderedResults ==
    \A v \in Videos : GatherOver(v) =>
        /\ Len(results[v]) = Len(plan[v])
        /\ \A k \in 1..Len(plan[v]) :
               /\ results[v][k].part_num = k
               /\ results[v][k].value = result[<< v, k >>]

\* results with which a task ends by raising instead of returning
Exceptions == {"AttributeError", "RuntimeError", "CancelledError"}

\* C12: a failure of the publish call of a segment is surfaced as a failed
\* result of that one segment: the task that made the call ends by
\* returning, never by an exception that leaves _process_segment.
C12_PublishFailureNormalised ==
    \A s \in Segs :
        (uploadCalls[s] > 0 /\ tpc[s] = "done") => result[s] \notin Exceptions

\* C13: when probing the source duration fails, crop_video_to_clips
\* raises before any segment task exists: the asset has no plan, no task,
\* no ffmpeg invocation and no publish call, and the step that fails it
\* takes main to the next video of the loop.
C13_PreflightFatalForAssetOnly ==
    /\ [](\A v \in Videos : outcome[v] = "preflight" =>
            /\ plan[v] = << >>
            /\ \A s \in Segs : s[1] = v =>
                   /\ tpc[s] = "none"
                   /\ ffmpegCalls[s] = 0
                   /\ uploadCalls[s] = 0)
    /\ [][\A v \in Videos :
            (outcome[v] # "preflight" /\ outcome'[v] = "preflight") =>
                /\ mainPc' = "loop"
                /\ vidx' = v + 1]_vars

\* C13 witness: the probe of the first video failed, and a segment of the
\* second video has since been transcoded and handed to upload
C13_Witness ==
    /\ outcome[1] = "preflight"
    /\ \E s \in Segs : s[1] = 2 /\ ffmpegCalls[s] = 1 /\ uploadCalls[s] = 1

\* C14: the gate is not held around the cache check: a task performs its
\* cache check without a slot, so no task is ever queued for the gate
\* (or handed a slot) with its cache check still to be made.
C14_GateExcludesCacheCheck ==
    \A s \in Segs : tpc[s] \in {"waiting", "granted"} => chk[s].done

\* tasks that hold a slot of the gate: those inside the body and those
\* acquire has handed a slot to and that have yet to resume
Holders == Inside \cup {s \in Segs : tpc[s] = "granted"}

\* C15: the slots held (max_concurrent_tasks minus the semaphore's value)
\* are at all times as many as the tasks that acquired one and have not
\* left the body, so each task gives back exactly the slot it took, however
\* it ends; when every task has finished and the run is over all
\* max_concurrent_tasks slots are free.
C15_GateRelease ==
    /\ max_concurrent_tasks - sem_value = Cardinality(Holders)
    /\ (\A s \in Segs : tpc[s] \in {"none", "done"}) =>
           sem_value = max_concurrent_tasks

\* C15 witness: the run is over with the gate free again after one task
\* failed in ffmpeg, one failed at the publish step and one was cancelled
\* inside the body
C15_Witness ==
    /\ mainPc = "closed"
    /\ sem_value = max_concurrent_tasks
    /\ \E s \in Segs : result[s] = "RuntimeError"
    /\ \E s \in Segs : result[s] = "AttributeError"
    /\ \E s \in Segs : result[s] = "CancelledError" /\ chk[s].entered

\* C16: the descriptors of a plan are numbered 1..N in order, N being the
\* number of descriptors emitted, and the total written in every part label
\* and description ("Part i/N") is that same N.
C16_SegmentNumbering ==
    \A v \in Videos : CropReturned(v) =>
        \A k \in 1..Len(plan[v]) :
            /\ plan[v][k].part_num = k
            /\ plan[v][k].total_parts = Len(plan[v])

Stuck ==
    \E st \in Streams :
        /\ child = "running"
        /\ towrite[st] # << >>
        /\ Len(pipe[st]) = PipeCap
        /\ logpc[st] # "reading"

\* C18: the wait for ffmpeg never deadlocks on its output: whatever the
\* child writes before it exits, it is never left blocked on a stream that
\* nobody reads, and the task comes out of the three awaits at the return
\* code check, not with an exception of a log task.
C18_TranscodeNeverDeadlocks == ~Stuck /\ waitpc # "raised"

\* C19: every description is the title, cut to 2200 minus the length of
\* the part suffix, followed by the whole suffix " (Part i/N)": it is never
\* longer than 2200 characters, for every title length and every part.
C19_DescriptionLengthBound ==
    \A v \in 1..video_limit : CropReturned(v) =>
        \A k \in 1..Len(plan[v]) :
            LET d == plan[v][k].description
            IN  /\ d.clean_title + d.part_suffix <= DescriptionLimit
                /\ d.clean_title <= title[v]
                /\ d.part_suffix = part_suffix(plan[v][k].part_num,
                                               plan[v][k].total_parts)

\* C19 witness: a title longer than the limit was cut, and the description
\* of a part with a two-digit number is exactly 2200 characters long
C19_Witness ==
    \E v \in 1..video_limit :
        /\ CropReturned(v)
        /\ title[v] > DescriptionLimit
        /\ \E k \in 1..Len(plan[v]) :
              LET d == plan[v][k].description
              IN  /\ Digits(plan[v][k].part_num) > 1
                  /\ d.clean_title < title[v]
                  /\ d.clean_title + d.part_suffix = DescriptionLimit

\* C20: upload is called for a segment only after its cache check returned
\* true or its ffmpeg exited 0; a segment whose ffmpeg exited non-zero gets
\* no upload call; a task starts ffmpeg at most once and calls upload at
\* most once.
C20_PublishOnlyValid ==
    \A s \in Segs :
        /\ ffmpegCalls[s] <= 1
        /\ uploadCalls[s] <= 1
        /\ uploadCalls[s] = 1 => ((chk[s].done /\ chk[s].ret) \/ rc[s] = "zero")
        /\ rc[s] = "nonzero" => uploadCalls[s] = 0

\* C20 witness: in one run a cached segment went to upload without ffmpeg,
\* another went to upload after ffmpeg exited 0, and a third, whose ffmpeg
\* exited non-zero, ended without an upload call
C20_Witness ==
    /\ \E s \in Segs : chk[s].ret /\ ffmpegCalls[s] = 0 /\ uploadCalls[s] = 1
    /\ \E s \in Segs : /\ ~chk[s].ret /\ ffmpegCalls[s] = 1
                       /\ rc[s] = "zero" /\ uploadCalls[s] = 1
    /\ \E s \in Segs : /\ result[s] = "RuntimeError" /\ rc[s] = "nonzero"
                       /\ ffmpegCalls[s] = 1 /\ uploadCalls[s] = 0

\* C21: once the cleanup phase of main has run, on whichever path main
\* came to it (the loop completed, an asset failed, listing the videos
\* failed), nothing is left under the working directory: no source file,
\* no segments folder and no segment file.
C21_CleanupLeavesNothing ==
    mainPc \in {"done", "closed"} =>
        /\ \A v \in Videos : ~src[v] /\ ~segdir[v]
        /\ \A s \in Segs : ~file[s].exists

====
